---- MODULE Spec2Model ----
\* A model of src/ccipca.py: the CCIPCA estimator class (CCIPCA_CLASS: __init__,
\* fit, fit_next) and the functional streaming driver (CCIPCA, _iterate,
\* _iterate_and_compute_errors).
\*
\* Floating-point numbers are modelled in fixed point: the integer k stands for
\* the real k / Scale, products and quotients are rounded to the nearest unit,
\* and NaN is a distinguished value that every operation propagates.
EXTENDS Integers, Sequences, FiniteSets, TLC

\* ------------------------------------------------------------------ bounds
D == 2              \* ambient dimension d of the modelled instances
Scale == 1000       \* fixed-point units per 1.0
MaxSamples == 2     \* the estimator absorbs at most MaxSamples samples
MaxEll == 2         \* amnesiac parameters 0..MaxEll
MaxN == 2           \* matrices have 1..MaxN columns
MaxEpoch == 2       \* n_epoch in 1..MaxEpoch

\* ------------------------------------------------------- floating point
\* The NaN that numpy's 0.0 / 0.0 produces (a RuntimeWarning, not an exception).
NaN == -999999999

Max(a, b) == IF a >= b THEN a ELSE b

Abs(a) == IF a >= 0 THEN a ELSE -a

\* a / b rounded to the nearest integer, b > 0.
RDiv(a, b) == (2 * a + b) \div (2 * b)

FAdd(a, b) == IF a = NaN \/ b = NaN THEN NaN ELSE a + b

FSub(a, b) == IF a = NaN \/ b = NaN THEN NaN ELSE a - b

FMul(a, b) == IF a = NaN \/ b = NaN THEN NaN ELSE RDiv(a * b, Scale)

\* a / b; the kernel only divides by a norm (b >= 0), and a norm of 0 means
\* every entry of the dividend is 0, so the quotient by zero is 0/0 = NaN.
FDiv(a, b) ==
    IF a = NaN \/ b = NaN \/ b = 0 THEN NaN
    ELSE IF b > 0 THEN RDiv(a * Scale, b) ELSE RDiv((-a) * Scale, -b)

RECURSIVE SqrtSearch(_, _, _)
\* The largest r in lo..hi with r * r <= n (hi * hi > n or hi = lo).
SqrtSearch(n, lo, hi) ==
    IF lo >= hi THEN lo
    ELSE LET mid == (lo + hi + 1) \div 2
         IN IF mid * mid <= n THEN SqrtSearch(n, mid, hi)
            ELSE SqrtSearch(n, lo, mid - 1)

RECURSIVE SumSeq(_)
SumSeq(s) == IF Len(s) = 0 THEN 0 ELSE Head(s) + SumSeq(Tail(s))

HasNaN(v) == \E k \in 1..Len(v) : v[k] = NaN

\* np.dot(x, u) of two vectors of the same length.
Dot(x, u) ==
    IF HasNaN(x) \/ HasNaN(u) THEN NaN
    ELSE RDiv(SumSeq([k \in 1..Len(x) |-> x[k] * u[k]]), Scale)

\* np.sqrt(v.dot(v)); the product keeps its full precision under the root, as a
\* double does, so the norm is 0 only for the zero vector.
Norm(v) ==
    IF HasNaN(v) THEN NaN
    ELSE SqrtSearch(SumSeq([k \in 1..Len(v) |-> v[k] * v[k]]),
                    0, SumSeq([k \in 1..Len(v) |-> Abs(v[k])]))

\* ------------------------------------------------------- the update rule
AgeNumNoMax(t, ell) == t - ell

\* max(1, t - ell), the numerator of the weight of the old estimate.
AgeNum(t, ell) == Max(1, t - ell)

\* 1 + ell, the numerator of the weight of the new sample.
NewNum(ell) == 1 + ell

\* num / (t + 1) as a float.
Weight(num, t) == RDiv(num * Scale, t + 1)

\* v = max(1,t-ell)/(t+1) * lambda_[i] * Uhat[:,i] + (1+ell)/(t+1) * dot(x,Uhat[:,i]) * x
ProvisionalV(t, ell, lam, u, x) ==
    LET a == FMul(Weight(AgeNum(t, ell), t), lam)
        b == FMul(Weight(NewNum(ell), t), Dot(x, u))
    IN [k \in 1..Len(u) |-> FAdd(FMul(a, u[k]), FMul(b, x[k]))]

\* x - np.dot(x, u) * u
Deflate(x, u) ==
    LET c == Dot(x, u)
    IN [k \in 1..Len(x) |-> FSub(x[k], FMul(c, u[k]))]

\* One pass of the loop body for column i: the new lambda_[i], Uhat[:,i] and x.
ColumnStep(t, ell, lam, u, x) ==
    LET v == ProvisionalV(t, ell, lam, u, x)
        newlam == Norm(v)
        newu == [k \in 1..Len(v) |-> FDiv(v[k], newlam)]
    IN [lam |-> newlam, u |-> newu, x |-> Deflate(x, newu)]

RECURSIVE UpdateLoop(_, _, _, _, _)
\* for i in range(q): ...  on st = [lambda_, Uhat, x], columns i..q still to do.
UpdateLoop(i, q, t, ell, st) ==
    IF i > q THEN st
    ELSE LET c == ColumnStep(t, ell, st.lambda_[i], st.Uhat[i], st.x)
         IN UpdateLoop(i + 1, q, t, ell,
                       [lambda_ |-> [st.lambda_ EXCEPT ![i] = c.lam],
                        Uhat |-> [st.Uhat EXCEPT ![i] = c.u],
                        x |-> c.x])

\* The portable kernel of fit_next (cython = False).
PyKernel(t, ell, lambda_, Uhat, q, x) ==
    UpdateLoop(1, q, t, ell, [lambda_ |-> lambda_, Uhat |-> Uhat, x |-> x])

\* coord_update.coord_update: the optimized kernel, the same mathematics.
coord_update(x, t, ell, lambda_, Uhat, q) ==
    UpdateLoop(1, q, t, ell, [lambda_ |-> lambda_, Uhat |-> Uhat, x |-> x])

RECURSIVE coord_update_total(_, _, _, _, _, _, _)
\* coord_update.coord_update_total: the update for columns k..n of X in order,
\* the sample count advancing by one per column inside the kernel.
coord_update_total(X, k, t, ell, lambda_, Uhat, q) ==
    IF k > Len(X) THEN [lambda_ |-> lambda_, Uhat |-> Uhat]
    ELSE LET r == coord_update(X[k], t, ell, lambda_, Uhat, q)
         IN coord_update_total(X, k + 1, t + 1, ell, r.lambda_, r.Uhat, q)

\* ------------------------------------------------------------- inputs
Zeros(n) == [k \in 1..n |-> 0]

Ones(n) == [k \in 1..n |-> Scale]

Unit(n, j) == [k \in 1..n |-> IF k = ((j - 1) % n) + 1 THEN Scale ELSE 0]

\* Sample vectors of length n.
SamplesOf(n) == {Zeros(n), Ones(n), Unit(n, 1)}

\* Vectors whose shape is not (d,).
BadSamples == {Ones(D + 1), Ones(D - 1)}

\* A d-by-n matrix, as the sequence of its columns.
Matrix(n) == [j \in 1..n |-> IF j % 3 = 1 THEN Ones(D)
                             ELSE IF j % 3 = 2 THEN Unit(D, 1) ELSE Zeros(D)]

\* Absent optional argument (None), and arrays with their shape.
None == [given |-> FALSE, shape |-> <<>>, data |-> <<>>]

Array(shape, data) == [given |-> TRUE, shape |-> shape, data |-> data]

\* Initial guesses for Uhat0: of shape (d,q), and of another shape.
Uhat0Choices(d, q) ==
    { None,
      Array(<<d, q>>, [j \in 1..q |-> Unit(d, j)]),
      Array(<<d, q>>, [j \in 1..q |-> Zeros(d)]),
      Array(<<d, q + 1>>, [j \in 1..(q + 1) |-> Unit(d, j)]) }

\* Initial guesses for lambda0: of shape (q,), and of another shape.
Lambda0Choices(q) ==
    { None, Array(<<q>>, Ones(q)), Array(<<q>>, Zeros(q)), Array(<<q + 1>>, Ones(q + 1)) }

\* np.random.normal(loc=0, scale=1/d, size=(d,q)): a draw, no entry pattern special.
RandomUhat(d, q) ==
    { [j \in 1..q |-> [k \in 1..d |-> IF k = ((j - 1) % d) + 1 THEN (3 * Scale) \div 5
                                       ELSE IF k = (j % d) + 1 THEN -((4 * Scale) \div 5)
                                       ELSE 0]] }

\* np.random.normal(0, 1, (q,)) / np.sqrt(q): a draw; entries of either sign.
RandomLambda(q) ==
    { [j \in 1..q |-> IF j % 2 = 1 THEN Scale \div 2 ELSE -(Scale \div 4)] }

Qs == {0, 1, D, D + 1}

\* ------------------------------------------------------------- state
VARIABLES
    self,       \* the estimator's attributes
    attrs,      \* the attributes __init__ has assigned so far
    call,       \* the last call made on the estimator and its arguments
    err,        \* how that call ended: "none" (no call yet), "ok", "AssertionError"
    buf,        \* the caller's sample buffer after the last fit_next
    nNext,      \* number of fit_next calls that returned
    nFit,       \* number of columns passed to fit
    drv,        \* the locals of one run of CCIPCA(...)
    evals,      \* the calls made to util.compute_errors
    absorbed    \* the column index j of every update the driver made

vars == <<self, attrs, call, err, buf, nNext, nFit, drv, evals, absorbed>>

classVars == <<self, attrs, call, err, buf, nNext, nFit>>

driverVars == <<drv, evals, absorbed>>

AllAttrs == {"Uhat", "t", "lambda_", "q", "d", "ell", "cython", "v"}

Constructed == attrs = AllAttrs

Init ==
    /\ self = [Uhat |-> <<>>, lambda_ |-> <<>>, t |-> 0, q |-> 0, d |-> 0,
               ell |-> 0, cython |-> FALSE]
    /\ attrs = {}
    /\ call = [op |-> "none"]
    /\ err = "none"
    /\ buf = <<>>
    /\ nNext = 0
    /\ nFit = 0
    /\ drv = [pc |-> "idle"]
    /\ evals = <<>>
    /\ absorbed = <<>>

\* -------------------------------------------------- CCIPCA_CLASS.__init__
\* assert Uhat0.shape == (d, q)
UhatShapeOK(Uhat0, d, q) == ~Uhat0.given \/ Uhat0.shape = <<d, q>>

\* assert lambda0.shape == (q,)
LambdaShapeOK(lambda0, q) == ~lambda0.given \/ lambda0.shape = <<q>>

\* The values self.Uhat may take: Uhat0.copy(), or a random draw.
UhatInit(Uhat0, d, q) == IF Uhat0.given THEN {Uhat0.data} ELSE RandomUhat(d, q)

\* The values self.lambda_ may take: lambda0.copy(), or a random draw.
LambdaInit(lambda0, q) == IF lambda0.given THEN {lambda0.data} ELSE RandomLambda(q)

\* self.t = 1
InitialT == 1

Construct(q, d, Uhat0, lambda0, ell, cython) ==
    /\ attrs = {} /\ err = "none"
    /\ call' = [op |-> "__init__", q |-> q, d |-> d, Uhat0 |-> Uhat0, lambda0 |-> lambda0]
    /\ IF ~UhatShapeOK(Uhat0, d, q)
       THEN /\ err' = "AssertionError"
            /\ UNCHANGED <<self, attrs>>
       ELSE \E U \in UhatInit(Uhat0, d, q) :
            IF ~LambdaShapeOK(lambda0, q)
            THEN /\ err' = "AssertionError"
                 /\ self' = [self EXCEPT !.Uhat = U, !.t = InitialT]
                 /\ attrs' = {"Uhat", "t"}
            ELSE \E L \in LambdaInit(lambda0, q) :
                 /\ err' = "ok"
                 /\ self' = [Uhat |-> U, lambda_ |-> L, t |-> InitialT, q |-> q,
                             d |-> d, ell |-> ell, cython |-> cython]
                 /\ attrs' = AllAttrs
    /\ UNCHANGED <<buf, nNext, nFit, driverVars>>

\* -------------------------------------------------- CCIPCA_CLASS.fit_next
AlwaysCaller(in_place) == "caller"

\* Which buffer x names: the caller's own (x = x_) or a private copy (x = x_.copy()).
WorkingBuffer(in_place) == IF in_place THEN "caller" ELSE "copy"

\* assert x.shape == (self.d,)
SampleShapeOK(x, d) == Len(x) = d

\* The portable loop rebinds x (x = x - ...): the buffer x named keeps its values.
PyBufferAfter(x0, xfinal) == x0

\* The optimized kernel deflates the buffer it is given in place.
CyBufferAfter(x0, xfinal) == xfinal

TNoIncrement(t, returned) == t

TAlways(t, returned) == t + 1

\* self.t += 1, reached only when the call returns.
NextT(t, returned) == IF returned THEN t + 1 ELSE t

\* The estimator after a fit_next(x) that passes the shape check, with the final x.
FitNextResult(s, x) ==
    LET r == IF s.cython THEN coord_update(x, s.t, s.ell, s.lambda_, s.Uhat, s.q)
             ELSE PyKernel(s.t, s.ell, s.lambda_, s.Uhat, s.q, x)
    IN [est |-> [s EXCEPT !.Uhat = r.Uhat, !.lambda_ = r.lambda_, !.t = NextT(s.t, TRUE)],
        x |-> IF s.cython THEN CyBufferAfter(x, r.x) ELSE PyBufferAfter(x, r.x)]

FitNext(x_, in_place) ==
    /\ Constructed
    /\ nNext + nFit < MaxSamples
    /\ call' = [op |-> "fit_next", x_ |-> x_, in_place |-> in_place]
    /\ IF ~SampleShapeOK(x_, self.d)
       THEN /\ err' = "AssertionError"
            /\ self' = [self EXCEPT !.t = NextT(self.t, FALSE)]
            /\ buf' = x_
            /\ UNCHANGED nNext
       ELSE LET r == FitNextResult(self, x_)
            IN /\ err' = "ok"
               /\ self' = r.est
               /\ buf' = IF WorkingBuffer(in_place) = "caller" THEN r.x ELSE x_
               /\ nNext' = nNext + 1
    /\ UNCHANGED <<attrs, nFit, driverVars>>

\* ------------------------------------------------------- CCIPCA_CLASS.fit
\* self.Uhat, self.lambda_ = coord_update_total(X, X.shape[-1], ...); self.t is
\* passed by value (np.double(self.t)) and is not assigned.
FitResult(s, X) ==
    LET r == coord_update_total(X, 1, s.t, s.ell, s.lambda_, s.Uhat, s.q)
    IN [s EXCEPT !.Uhat = r.Uhat, !.lambda_ = r.lambda_]

Fit(X) ==
    /\ Constructed
    /\ nNext + nFit + Len(X) <= MaxSamples
    /\ call' = [op |-> "fit", X |-> X]
    /\ err' = "ok"
    /\ self' = FitResult(self, X)
    /\ nFit' = nFit + Len(X)
    /\ UNCHANGED <<attrs, buf, nNext, driverVars>>

\* ------------------------------------------------------------ the class
DoConstruct ==
    \E q \in Qs : \E Uhat0 \in Uhat0Choices(D, q) : \E lambda0 \in Lambda0Choices(q) :
    \E ell \in 0..MaxEll : \E cython \in BOOLEAN :
        Construct(q, D, Uhat0, lambda0, ell, cython)

DoFitNext ==
    \E x_ \in SamplesOf(D) \cup BadSamples : \E in_place \in BOOLEAN : FitNext(x_, in_place)

DoFit == \E n \in 1..MaxN : Fit(Matrix(n))

Next == DoConstruct \/ DoFitNext \/ DoFit

Spec == Init /\ [][Next]_vars

\* ------------------------------------------------- the streaming driver
RangeFirstZero == 1 - 1

\* for t in range(1, n_its): the first value of t.
RangeFirst == 1

ColumnShifted(t, n) == (t + 1) % n

\* j = t % n
ColumnOf(t, n) == t % n

\* util.initialize_errors(error_options, n_its): one unwritten entry per iteration
\* index 0..n_its-1 (entry k of the array is element k + 1 of the sequence).
initialize_errors(n_its) == [k \in 1..n_its |-> FALSE]

\* util.compute_errors(error_options, Uhat, t, errs): writes entry t of errs.
compute_errors(t, errs) == [errs EXCEPT ![t + 1] = TRUE]

\* CCIPCA(X, q, n_epoch, error_options, Uhat0, lambda0, ell) up to the loop.
DriverCall(X, q, n_epoch, erropt, Uhat0, lambda0, ell) ==
    /\ drv.pc = "idle"
    /\ LET d == D
           n == Len(X)
           n_its == n_epoch * n
       IN IF ~UhatShapeOK(Uhat0, d, q) \/ ~LambdaShapeOK(lambda0, q)
          THEN drv' = [pc |-> "failed"]
          ELSE \E U \in UhatInit(Uhat0, d, q) : \E L \in LambdaInit(lambda0, q) :
               drv' = [pc |-> "head", X |-> X, n |-> n, q |-> q, ell |-> ell,
                       n_epoch |-> n_epoch, n_its |-> n_its, erropt |-> erropt,
                       Uhat |-> U, lambda_ |-> L, t |-> RangeFirst,
                       errs |-> IF erropt THEN initialize_errors(n_its) ELSE <<>>]
    /\ UNCHANGED <<evals, absorbed, classVars>>

\* util.compute_errors(error_options, Uhat, t, errs), the first statement of an
\* iteration of _iterate_and_compute_errors.
ComputeErrors ==
    /\ drv.pc = "head"
    /\ drv.erropt
    /\ drv.t < drv.n_its
    /\ evals' = Append(evals, [t |-> drv.t, Uhat |-> drv.Uhat, updates |-> Len(absorbed)])
    /\ drv' = [drv EXCEPT !.pc = "update", !.errs = compute_errors(drv.t, drv.errs)]
    /\ UNCHANGED <<absorbed, classVars>>

\* x = X[:, j] and the loop over the q columns, in _iterate and after the
\* evaluator's call in _iterate_and_compute_errors.
IterateUpdate ==
    /\ \/ drv.pc = "update"
       \/ drv.pc = "head" /\ ~drv.erropt /\ drv.t < drv.n_its
    /\ LET j == ColumnOf(drv.t, drv.n)
           r == PyKernel(drv.t, drv.ell, drv.lambda_, drv.Uhat, drv.q, drv.X[j + 1])
       IN /\ drv' = [drv EXCEPT !.pc = "head", !.Uhat = r.Uhat, !.lambda_ = r.lambda_,
                                !.t = drv.t + 1]
          /\ absorbed' = Append(absorbed, j)
    /\ UNCHANGED <<evals, classVars>>

\* return Uhat / return errs, once range(1, n_its) is exhausted.
DriverReturn ==
    /\ drv.pc = "head"
    /\ drv.t >= drv.n_its
    /\ drv' = [drv EXCEPT !.pc = "done"]
    /\ UNCHANGED <<evals, absorbed, classVars>>

DoDriverCall ==
    \E n \in 1..MaxN : \E q \in Qs : \E n_epoch \in 1..MaxEpoch : \E erropt \in BOOLEAN :
    \E Uhat0 \in Uhat0Choices(D, q) : \E lambda0 \in Lambda0Choices(q) :
    \E ell \in 0..MaxEll :
        DriverCall(Matrix(n), q, n_epoch, erropt, Uhat0, lambda0, ell)

NextDriver == DoDriverCall \/ ComputeErrors \/ IterateUpdate \/ DriverReturn

SpecDriver == Init /\ [][NextDriver]_vars

\* ------------------------------------------------------------ properties
EstimatorState(s) == <<s.Uhat, s.lambda_, s.t>>

RECURSIVE StreamResult(_, _, _)
\* The estimator after fit_next on columns k, k+1, ..., n of X in order.
StreamResult(s, X, k) ==
    IF k > Len(X) THEN s ELSE StreamResult(FitNextResult(s, X[k]).est, X, k + 1)

\* C1: fit(X) leaves (Uhat, lambda, t) as fit_next on the columns of X in order
\* leaves them; in particular fit advances t by the number of columns.
FitEqualsStream ==
    [][(self.q \in 1..self.d /\ nFit' # nFit) =>
          EstimatorState(self') = EstimatorState(StreamResult(self, call'.X, 1))]_vars

\* C2: t is 1 after construction, never decreases, and equals 1 plus the number
\* of fit_next calls that returned.
MonotoneCounter ==
    /\ [](Constructed => self.t = 1 + nNext)
    /\ [][self'.t >= self.t]_vars

TwoSamplesCounted == Constructed /\ nNext = 2 /\ self.t = 3 /\ ~self.cython

CountOf(j) == Cardinality({k \in 1..Len(absorbed) : absorbed[k] = j})

DriverRunning == drv.pc \in {"head", "update", "done"}

\* C3 (as stated): the driver makes n_epoch * n updates, visiting columns
\* 0, 1, ..., n-1 in order in every pass, every column n_epoch times.
DriverFullPasses ==
    drv.pc = "done" =>
        /\ Len(absorbed) = drv.n_epoch * drv.n
        /\ absorbed = [k \in 1..(drv.n_epoch * drv.n) |-> (k - 1) % drv.n]
        /\ \A j \in 0..(drv.n - 1) : CountOf(j) = drv.n_epoch

\* C3 (amended): the driver makes n_epoch * n - 1 updates, at iterations
\* t = 1, ..., n_epoch * n - 1, iteration t absorbing column t mod n: the first
\* pass starts at column 1 (column 0 when n = 1), later passes at column 0, and
\* column 0 is absorbed n_epoch - 1 times, every other column n_epoch times.
DriverSkipsFirstColumn ==
    DriverRunning =>
        /\ absorbed = [k \in 1..Len(absorbed) |-> k % drv.n]
        /\ Len(absorbed) <= drv.n_epoch * drv.n - 1
        /\ drv.pc = "done" =>
              /\ Len(absorbed) = drv.n_epoch * drv.n - 1
              /\ CountOf(0) = drv.n_epoch - 1
              /\ \A j \in 1..(drv.n - 1) : CountOf(j) = drv.n_epoch

TwoPassesDone ==
    /\ drv.pc = "done" /\ drv.n = 2 /\ drv.n_epoch = 2 /\ drv.q >= 1
    /\ absorbed = <<1, 0, 1>>

\* C4 (as stated): with an evaluator, the number of its calls is n_epoch * n,
\* the size of the error array.
EvaluatorCalledEveryIteration ==
    (drv.pc = "done" /\ drv.erropt) =>
        /\ Len(evals) = drv.n_epoch * drv.n
        /\ Len(evals) = Len(drv.errs)

\* C4 (amended): the evaluator is called once per iteration, before that
\* iteration's update: call k is made at t = k, after exactly k - 1 updates, on
\* the estimate the next update starts from; there are n_epoch * n - 1 calls, one
\* fewer than the n_epoch * n entries of the error array, whose entry 0 stays
\* unwritten.
EvaluatorBeforeUpdate ==
    (DriverRunning /\ drv.erropt) =>
        /\ \A k \in 1..Len(evals) : evals[k].t = k /\ evals[k].updates = k - 1
        /\ drv.pc = "update" =>
              /\ Len(evals) = Len(absorbed) + 1
              /\ evals[Len(evals)].Uhat = drv.Uhat
        /\ drv.pc \in {"head", "done"} => Len(evals) = Len(absorbed)
        /\ Len(drv.errs) = drv.n_epoch * drv.n
        /\ \A k \in 1..Len(drv.errs) : drv.errs[k] <=> (k - 1) \in 1..Len(evals)
        /\ drv.pc = "done" => Len(evals) = drv.n_epoch * drv.n - 1

EvaluatedRunDone ==
    /\ drv.pc = "done" /\ drv.erropt /\ drv.q >= 1
    /\ Len(evals) = 3 /\ evals[3].Uhat # evals[2].Uhat

\* C5: fit_next on a sample whose shape is not (d,) fails and leaves Uhat,
\* lambda and t as they were.
ShapeErrorLeavesState ==
    [][(call'.op = "fit_next" /\ Len(call'.x_) # self.d) =>
          /\ err' = "AssertionError"
          /\ EstimatorState(self') = EstimatorState(self)
          /\ nNext' = nNext]_vars

ShapeErrorSeen ==
    /\ err = "AssertionError" /\ call.op = "fit_next" /\ call.in_place
    /\ self.cython /\ nNext >= 1 /\ self.q >= 1

\* C6: a column whose provisional vector has norm zero is reported as an error
\* before the division: no non-finite column is ever written into Uhat.
NoNonFiniteColumn ==
    Constructed => \A i \in 1..Len(self.Uhat) : ~HasNaN(self.Uhat[i])

\* C7: construction with q = 0, q > d, or an initial guess of the wrong shape
\* fails, before any estimator state is created.
ConstructionRejected ==
    (/\ call.op = "__init__"
     /\ \/ call.q = 0
        \/ call.q > call.d
        \/ ~UhatShapeOK(call.Uhat0, call.d, call.q)
        \/ ~LambdaShapeOK(call.lambda0, call.q))
    => (err = "AssertionError" /\ attrs = {})

NormTol == Scale \div 20

\* C8: after every completed fit_next, every column of Uhat has norm 1 within
\* tolerance.
UnitNormColumns ==
    (Constructed /\ nNext >= 1) =>
        \A i \in 1..Len(self.Uhat) :
            /\ ~HasNaN(self.Uhat[i])
            /\ Abs(Norm(self.Uhat[i]) - Scale) <= NormTol

\* C9: fit_next with in_place = False leaves the caller's sample buffer with the
\* values it had before the call, whichever kernel is selected.
CallerBufferPreserved ==
    (call.op = "fit_next" /\ ~call.in_place) => buf = call.x_

CopyDeflated ==
    /\ call.op = "fit_next" /\ ~call.in_place /\ err = "ok"
    /\ self.cython /\ self.q >= 1 /\ call.x_ = Ones(D)
    /\ ~HasNaN(self.Uhat[1])
    /\ Deflate(call.x_, self.Uhat[1]) # call.x_

\* C10: for the t and ell of any estimator, max(1, t - ell) / (t + 1) is strictly
\* positive, and the two weights sum to 1 exactly when t >= ell + 1; while
\* t <= ell their sum is greater than 1.
WeightsConvex ==
    Constructed =>
        LET t == self.t
            ell == self.ell
            total == AgeNum(t, ell) + NewNum(ell)
        IN /\ t >= 1 /\ ell >= 0
           /\ AgeNum(t, ell) > 0
           /\ Weight(AgeNum(t, ell), t) > 0
           /\ (total = t + 1) <=> (t >= ell + 1)
           /\ (t <= ell) => (total > t + 1)

BootstrapWeights == Constructed /\ nNext >= 1 /\ self.t <= self.ell

====
